---- MODULE Spec2Model ----
(***************************************************************************)
(* The Session & Broker Engine of aes-chat: the persistent server variant  *)
(* (src/unnamed/part_003, lines 470-1158).  The state is the process-wide  *)
(* rooms map, each socket's closure (currentRoom, currentUser), socket.io's*)
(* channel membership, the pending setTimeout callbacks, the save timer    *)
(* and the persisted snapshot.  One action per handler.                    *)
(*                                                                         *)
(* Time is counted in units of 1000 ms.  Fields the handlers only copy     *)
(* (name, createdAt, avatar, color, timestamp, joinedAt, isOnline) are     *)
(* left out of the records.                                                *)
(***************************************************************************)
EXTENDS Integers, Sequences, FiniteSets, TLC

VARIABLES
    conn,         \* session id -> "new" | "open" | "closed" (a socket id is never reused)
    currentRoom,  \* closure variable of io.on('connection'), per socket
    currentUser,  \* closure variable: the display name given at join-room, per socket
    chan,         \* socket.io adapter: the channels each socket has joined
    rooms,        \* the rooms Map: room id -> Room
    timers,       \* pending setTimeout callbacks of the handlers
    saveTimeout,  \* the save timer: the handle stored in saveTimeout (the due time of
                  \* the last timer set, or NoTime) and the callbacks still pending
    disk,         \* the persisted snapshot: room id -> persisted room
    useFirebase,  \* persistence variant chosen at startup
    loading,      \* an asynchronous loadRooms is in flight (cloud variant)
    now,          \* the clock
    nextId,       \* the next message id to mint (uuidv4: never repeats)
    restarts,     \* process restarts so far
    savedState,   \* history: the rooms whose snapshot was up to date at the last restart
    client,       \* the browser behind each socket: its room key and handshake
    net,          \* the deliveries on their way from the server to the clients
    out,          \* the events delivered by the last step: a set of deliveries
    last          \* the inbound event (or timer) the last step handled

vars == <<conn, currentRoom, currentUser, chan, rooms, timers, saveTimeout,
          disk, useFirebase, loading, now, nextId, restarts, savedState,
          client, net, out, last>>

-----------------------------------------------------------------------------
(* Bounds of the model *)

MaxMsgs == 2
MaxTime == 6
MaxRestarts == 1

(* Program constants *)

SaveDelay == 2
DisappearAfter == 5
HistoryLimit == 5000
EphemeralHistoryLimit == 100
CleanupDelay == 86400

Sessions == {"s1", "s2", "s3"}
RoomIds == {"r1", "r2"}
Names == {"alice", "bob"}
Emojis == {"e1"}
Contents == {"c1"}
NewContents == {"c2"}
None == "none"
NoTime == -1
DeletedText == "This message was deleted"
DisappearedText == "This message has disappeared"
VoiceText == "Voice message"

\* The persistent user id a client reads from its localStorage and sends in
\* join-room: s1 and s2 are two connections of the same browser.
ClientUserId(s) == IF s = "s3" THEN "u2" ELSE "u1"

\* The ids an inbound targetId can carry: any string, so also a room id.
TargetIds == Sessions \cup RoomIds

-----------------------------------------------------------------------------
(* Helpers *)

Min(S) == CHOOSE x \in S : \A y \in S : x <= y

EmptyMap == <<>>

Restrict(f, S) == [x \in S |-> f[x]]

\* Array.prototype.slice(-n)
SliceLast(seq, n) ==
    IF Len(seq) <= n THEN seq ELSE SubSeq(seq, Len(seq) - n + 1, Len(seq))

\* Array.prototype.findIndex(m => m.id === id), 1-based, 0 when absent
FindIndex(msgs, id) ==
    IF \E i \in 1..Len(msgs) : msgs[i].id = id
    THEN Min({i \in 1..Len(msgs) : msgs[i].id = id})
    ELSE 0

\* Array.prototype.indexOf, 1-based, 0 when absent
IndexOf(seq, x) ==
    IF \E i \in 1..Len(seq) : seq[i] = x
    THEN Min({i \in 1..Len(seq) : seq[i] = x})
    ELSE 0

\* Array.prototype.splice(i, 1)
RemoveAt(seq, i) == SubSeq(seq, 1, i - 1) \o SubSeq(seq, i + 1, Len(seq))

-----------------------------------------------------------------------------
(* class Room, class Message *)

Room(createdBy) ==
    [createdBy |-> createdBy,
     members   |-> EmptyMap,
     messages  |-> <<>>,
     settings  |-> [disappearingMessages |-> 0]]

addMember(room, userId, userName) ==
    [room EXCEPT !.members =
        [k \in DOMAIN room.members \cup {userId} |->
            IF k = userId THEN [name |-> userName] ELSE room.members[k]]]

\* removeMember that also strips the user from every reaction bucket and readBy
removeMemberPurge(room, userId) ==
    [room EXCEPT
        !.members = Restrict(room.members, DOMAIN room.members \ {userId}),
        !.messages =
            [i \in 1..Len(room.messages) |->
                [room.messages[i] EXCEPT
                    !.readBy = SelectSeq(@, LAMBDA x : x # userId),
                    !.reactions = [e \in DOMAIN @ |->
                                      SelectSeq(@[e], LAMBDA x : x # userId)]]]]

removeMember(room, userId) ==
    [room EXCEPT !.members = Restrict(room.members, DOMAIN room.members \ {userId})]

getMembersList(room) ==
    {[id |-> k, name |-> room.members[k].name] : k \in DOMAIN room.members}

Message(id, roomId, senderId, senderName, content, type, replyTo, fileData, disappearAt) ==
    [id          |-> id,
     roomId      |-> roomId,
     senderId    |-> senderId,
     senderName  |-> senderName,
     content     |-> content,
     type        |-> type,
     replyTo     |-> replyTo,
     reactions   |-> EmptyMap,
     readBy      |-> <<senderId>>,
     edited      |-> FALSE,
     editedAt    |-> NoTime,
     deleted     |-> FALSE,
     disappearAt |-> disappearAt,
     fileData    |-> fileData]

-----------------------------------------------------------------------------
(* Outbound events *)

\* io.to(x): the connected sockets in channel x; every socket is in the
\* channel named by its own id.
InChannel(x) == {t \in Sessions : conn[t] = "open" /\ (t = x \/ x \in chan[t])}

\* The payload of an outbound event: the fields any of them carries, each at
\* its default when the event has no such field.
Payload ==
    [sender |-> None, mid |-> 0, text |-> None, aux |-> None, num |-> 0,
     msgs |-> <<>>, members |-> {}, reactions |-> EmptyMap]

Emit(dest, ev, payload) == {[to |-> t, ev |-> ev, p |-> payload] : t \in dest}

Event(ev, s, target, mid, text) ==
    [ev |-> ev, s |-> s, target |-> target, mid |-> mid, text |-> text]

-----------------------------------------------------------------------------
(* Snapshot coalescer: saveRooms() clears the timer whose handle is in     *)
(* saveTimeout and starts a new one, whose handle it stores.               *)

\* No timer was ever set
NoSaveTimer == [handle |-> NoTime, pending |-> {}]

\* Mutant of saveRooms: the clearTimeout is missing
saveRoomsNoClear ==
    [handle |-> now + SaveDelay, pending |-> saveTimeout.pending \cup {now + SaveDelay}]

saveRooms ==
    [handle  |-> now + SaveDelay,
     pending |-> (saveTimeout.pending \ {saveTimeout.handle}) \cup {now + SaveDelay}]

PutRoom(roomId, room) ==
    [r \in DOMAIN rooms \cup {roomId} |-> IF r = roomId THEN room ELSE rooms[r]]

\* A handler that returns early: nothing changes, nothing is sent.
Drop(ev) ==
    /\ out' = {}
    /\ last' = ev
    /\ UNCHANGED <<conn, currentRoom, currentUser, chan, rooms, timers,
                   saveTimeout, disk, useFirebase, loading, now, nextId, restarts, savedState,
                   client, net>>

\* A browser tab before joinRoom: no key, no HandshakeManager
NoClient ==
    [joining |-> FALSE, manager |-> FALSE, encryptionKey |-> None,
     handshake |-> "none", completed |-> FALSE, listening |-> FALSE,
     timer |-> FALSE, settled |-> 0, emits |-> {}]

-----------------------------------------------------------------------------
Init ==
    /\ conn = [s \in Sessions |-> "new"]
    /\ currentRoom = [s \in Sessions |-> None]
    /\ currentUser = [s \in Sessions |-> None]
    /\ chan = [s \in Sessions |-> {}]
    /\ rooms = EmptyMap
    /\ timers = {}
    /\ saveTimeout = NoSaveTimer
    /\ disk = EmptyMap
    /\ useFirebase = FALSE
    /\ loading = FALSE
    /\ now = 0
    /\ nextId = 1
    /\ restarts = 0
    /\ savedState = EmptyMap
    /\ client = [s \in Sessions |-> NoClient]
    /\ net = {}
    /\ out = {}
    /\ last = Event("init", None, None, 0, None)

\* io.on('connection'): a socket with a fresh id and an empty closure
Connect(s) ==
    /\ conn[s] = "new"
    /\ conn' = [conn EXCEPT ![s] = "open"]
    /\ out' = {}
    /\ last' = Event("connection", s, None, 0, None)
    /\ UNCHANGED <<currentRoom, currentUser, chan, rooms, timers, saveTimeout,
                   disk, useFirebase, loading, now, nextId, restarts, savedState,
                   client, net>>

\* POST /api/rooms
CreateRoom(roomId, creatorName) ==
    /\ roomId \notin DOMAIN rooms
    /\ roomId \notin DOMAIN disk
    /\ rooms' = PutRoom(roomId, Room(creatorName))
    /\ saveTimeout' = saveRooms
    /\ out' = {}
    /\ last' = Event("create-room", None, roomId, 0, creatorName)
    /\ UNCHANGED <<conn, currentRoom, currentUser, chan, timers, disk,
                   useFirebase, loading, now, nextId, restarts, savedState,
                   client, net>>

\* join-room announcing with io.to(roomId), which includes the joiner, in place
\* of socket.to(roomId)
JoinRoomEcho(s, roomId, userName) ==
    /\ conn[s] = "open"
    /\ LET base == IF roomId \in DOMAIN rooms THEN rooms[roomId] ELSE Room(userName)
           room == addMember(base, s, userName)
       IN /\ rooms' = PutRoom(roomId, room)
          /\ out' = Emit({s}, "room-joined",
                          [Payload EXCEPT !.text = roomId,
                                          !.members = getMembersList(room),
                                          !.msgs = SliceLast(room.messages, HistoryLimit),
                                          !.num = room.settings.disappearingMessages])
                     \cup Emit(InChannel(roomId) \cup {s}, "user-joined",
                               [Payload EXCEPT !.sender = s, !.text = userName,
                                               !.members = getMembersList(room)])
    /\ currentRoom' = [currentRoom EXCEPT ![s] = roomId]
    /\ currentUser' = [currentUser EXCEPT ![s] = userName]
    /\ chan' = [chan EXCEPT ![s] = @ \cup {roomId}]
    /\ saveTimeout' = saveRooms
    /\ last' = Event("join-room", s, roomId, 0, userName)
    /\ UNCHANGED <<conn, timers, disk, useFirebase, loading, now, nextId, restarts, savedState,
                   client, net>>

\* socket.on('join-room')
JoinRoom(s, roomId, userName) ==
    /\ conn[s] = "open"
    /\ LET base == IF roomId \in DOMAIN rooms THEN rooms[roomId] ELSE Room(userName)
           room == addMember(base, s, userName)
       IN /\ rooms' = PutRoom(roomId, room)
          /\ out' = Emit({s}, "room-joined",
                          [Payload EXCEPT !.text = roomId,
                                          !.members = getMembersList(room),
                                          !.msgs = SliceLast(room.messages, HistoryLimit),
                                          !.num = room.settings.disappearingMessages])
                     \cup Emit(InChannel(roomId) \ {s}, "user-joined",
                               [Payload EXCEPT !.sender = s, !.text = userName,
                                               !.members = getMembersList(room)])
    /\ currentRoom' = [currentRoom EXCEPT ![s] = roomId]
    /\ currentUser' = [currentUser EXCEPT ![s] = userName]
    /\ chan' = [chan EXCEPT ![s] = @ \cup {roomId}]
    /\ saveTimeout' = saveRooms
    /\ last' = Event("join-room", s, roomId, 0, userName)
    /\ UNCHANGED <<conn, timers, disk, useFirebase, loading, now, nextId, restarts, savedState,
                   client, net>>

\* socket.on('disconnect'); socket.io has taken the socket out of every channel
Disconnect(s) ==
    /\ conn[s] = "open"
    /\ conn' = [conn EXCEPT ![s] = "closed"]
    /\ chan' = [chan EXCEPT ![s] = {}]
    /\ IF currentRoom[s] # None /\ currentUser[s] # None /\ currentRoom[s] \in DOMAIN rooms
       THEN LET room == removeMember(rooms[currentRoom[s]], s)
            IN /\ rooms' = PutRoom(currentRoom[s], room)
               /\ out' = Emit(InChannel(currentRoom[s]) \ {s}, "user-left",
                               [Payload EXCEPT !.sender = s, !.text = currentUser[s],
                                               !.members = getMembersList(room)])
       ELSE /\ rooms' = rooms
            /\ out' = {}
    /\ saveTimeout' = saveRooms
    /\ last' = Event("disconnect", s, None, 0, None)
    /\ UNCHANGED <<currentRoom, currentUser, timers, disk, useFirebase, loading,
                   now, nextId, restarts, savedState,
                   client, net>>

-----------------------------------------------------------------------------
(* Message handlers *)

\* The one-shot timer of a disappearing message.  Its callback holds the Room
\* object (room), the message id, and reads the posting socket's currentRoom
\* (owner) when it fires.
Timer(owner, roomId, mid, due) ==
    [kind |-> "disappear", owner |-> owner, room |-> roomId, mid |-> mid, due |-> due,
     orphan |-> FALSE]

\* send-message broadcasting with socket.to(currentRoom), which leaves out the
\* sender, in place of io.to(currentRoom)
SendMessageToOthers(s, content, replyTo) ==
    /\ conn[s] = "open"
    /\ IF currentRoom[s] = None \/ currentRoom[s] \notin DOMAIN rooms
       THEN Drop(Event("send-message", s, None, 0, content))
       ELSE /\ nextId <= MaxMsgs
            /\ LET cr == currentRoom[s]
                   room == rooms[cr]
                   ttl == room.settings.disappearingMessages
                   message == Message(nextId, cr, s, currentUser[s], content, "text",
                                      replyTo, None,
                                      IF ttl # 0 THEN now + ttl ELSE NoTime)
               IN /\ rooms' = PutRoom(cr, [room EXCEPT !.messages = Append(@, message)])
                  /\ out' = Emit(InChannel(cr) \ {s}, "message",
                                 [Payload EXCEPT !.sender = s, !.mid = message.id,
                                                 !.text = content, !.msgs = <<message>>])
                  /\ timers' = IF message.disappearAt # NoTime
                               THEN timers \cup {Timer(s, cr, message.id, now + ttl)}
                               ELSE timers
            /\ saveTimeout' = saveRooms
            /\ nextId' = nextId + 1
            /\ last' = Event("send-message", s, None, nextId, content)
            /\ UNCHANGED <<conn, currentRoom, currentUser, chan, disk, useFirebase,
                           loading, now, restarts, savedState,
                   client, net>>

\* socket.on('send-message')
SendMessage(s, content, replyTo) ==
    /\ conn[s] = "open"
    /\ IF currentRoom[s] = None \/ currentRoom[s] \notin DOMAIN rooms
       THEN Drop(Event("send-message", s, None, 0, content))
       ELSE /\ nextId <= MaxMsgs
            /\ LET cr == currentRoom[s]
                   room == rooms[cr]
                   ttl == room.settings.disappearingMessages
                   message == Message(nextId, cr, s, currentUser[s], content, "text",
                                      replyTo, None,
                                      IF ttl # 0 THEN now + ttl ELSE NoTime)
               IN /\ rooms' = PutRoom(cr, [room EXCEPT !.messages = Append(@, message)])
                  /\ out' = Emit(InChannel(cr), "message",
                                 [Payload EXCEPT !.sender = s, !.mid = message.id,
                                                 !.text = content, !.msgs = <<message>>])
                  /\ timers' = IF message.disappearAt # NoTime
                               THEN timers \cup {Timer(s, cr, message.id, now + ttl)}
                               ELSE timers
            /\ saveTimeout' = saveRooms
            /\ nextId' = nextId + 1
            /\ last' = Event("send-message", s, None, nextId, content)
            /\ UNCHANGED <<conn, currentRoom, currentUser, chan, disk, useFirebase,
                           loading, now, restarts, savedState,
                   client, net>>

\* socket.on('voice-message')
VoiceMessage(s) ==
    /\ conn[s] = "open"
    /\ IF currentRoom[s] = None
       THEN Drop(Event("voice-message", s, None, 0, None))
       ELSE /\ nextId <= MaxMsgs
            /\ LET cr == currentRoom[s]
                   room == rooms[cr]
                   message == Message(nextId, cr, s, currentUser[s], VoiceText, "voice",
                                      0, "audio", NoTime)
               IN /\ rooms' = PutRoom(cr, [room EXCEPT !.messages = Append(@, message)])
                  /\ out' = Emit(InChannel(cr), "message",
                                 [Payload EXCEPT !.sender = s, !.mid = message.id,
                                                 !.text = VoiceText, !.msgs = <<message>>])
            /\ saveTimeout' = saveRooms
            /\ nextId' = nextId + 1
            /\ last' = Event("voice-message", s, None, nextId, None)
            /\ UNCHANGED <<conn, currentRoom, currentUser, chan, timers, disk,
                           useFirebase, loading, now, restarts, savedState,
                   client, net>>

\* Mutant of ToggleReaction: the emptied bucket is not deleted
ToggleReactionKeep(reactions, emoji, s) ==
    LET cur == IF emoji \in DOMAIN reactions THEN reactions[emoji] ELSE <<>>
        idx == IndexOf(cur, s)
    IN [k \in DOMAIN reactions \cup {emoji} |->
           IF k # emoji THEN reactions[k]
           ELSE IF idx > 0 THEN RemoveAt(cur, idx) ELSE Append(cur, s)]

\* Mutant of ToggleReaction: the socket id is pushed without the indexOf test
ToggleReactionPush(reactions, emoji, s) ==
    LET cur == IF emoji \in DOMAIN reactions THEN reactions[emoji] ELSE <<>>
    IN [k \in DOMAIN reactions \cup {emoji} |->
           IF k = emoji THEN Append(cur, s) ELSE reactions[k]]

\* The toggle of add-reaction on one reactions object
ToggleReaction(reactions, emoji, s) ==
    LET cur == IF emoji \in DOMAIN reactions THEN reactions[emoji] ELSE <<>>
        idx == IndexOf(cur, s)
    IN IF idx > 0
       THEN IF Len(RemoveAt(cur, idx)) = 0
            THEN Restrict(reactions, DOMAIN reactions \ {emoji})
            ELSE [reactions EXCEPT ![emoji] = RemoveAt(cur, idx)]
       ELSE [k \in DOMAIN reactions \cup {emoji} |->
                IF k = emoji THEN Append(cur, s) ELSE reactions[k]]

\* socket.on('add-reaction')
AddReaction(s, messageId, emoji) ==
    /\ conn[s] = "open"
    /\ IF currentRoom[s] = None
          \/ FindIndex(rooms[currentRoom[s]].messages, messageId) = 0
       THEN Drop(Event("add-reaction", s, None, messageId, emoji))
       ELSE /\ LET cr == currentRoom[s]
                   room == rooms[cr]
                   i == FindIndex(room.messages, messageId)
                   reactions == ToggleReaction(room.messages[i].reactions, emoji, s)
               IN /\ rooms' = PutRoom(cr, [room EXCEPT !.messages[i].reactions = reactions])
                  /\ out' = Emit(InChannel(cr), "reaction-updated",
                                 [Payload EXCEPT !.mid = messageId, !.reactions = reactions])
            /\ last' = Event("add-reaction", s, None, messageId, emoji)
            /\ UNCHANGED <<conn, currentRoom, currentUser, chan, timers, saveTimeout,
                           disk, useFirebase, loading, now, nextId, restarts, savedState,
                   client, net>>

\* Mutant of MarkAll: the reader is pushed without the includes test
RECURSIVE MarkAllPush(_, _, _)
MarkAllPush(msgs, ids, s) ==
    IF ids = <<>> THEN msgs
    ELSE LET i == FindIndex(msgs, Head(ids))
         IN IF i # 0
            THEN MarkAllPush([msgs EXCEPT ![i].readBy = Append(@, s)], Tail(ids), s)
            ELSE MarkAllPush(msgs, Tail(ids), s)

\* The forEach of mark-read: the messages after the ids were handled in order
RECURSIVE MarkAll(_, _, _)
MarkAll(msgs, ids, s) ==
    IF ids = <<>> THEN msgs
    ELSE LET i == FindIndex(msgs, Head(ids))
         IN IF i # 0 /\ IndexOf(msgs[i].readBy, s) = 0
            THEN MarkAll([msgs EXCEPT ![i].readBy = Append(@, s)], Tail(ids), s)
            ELSE MarkAll(msgs, Tail(ids), s)

\* The ids of messageIds for which mark-read pushed the reader
NewlyRead(msgs, ids, s) ==
    {ids[k] : k \in {j \in 1..Len(ids) :
                        /\ FindIndex(msgs, ids[j]) # 0
                        /\ IndexOf(msgs[FindIndex(msgs, ids[j])].readBy, s) = 0}}

\* socket.on('mark-read')
MarkRead(s, messageIds) ==
    /\ conn[s] = "open"
    /\ IF currentRoom[s] = None
       THEN Drop(Event("mark-read", s, None, Head(messageIds), messageIds))
       ELSE /\ LET cr == currentRoom[s]
                   room == rooms[cr]
               IN /\ rooms' = PutRoom(cr, [room EXCEPT !.messages = MarkAll(@, messageIds, s)])
                  /\ out' = UNION {Emit(InChannel(cr) \ {s}, "message-read",
                                        [Payload EXCEPT !.mid = id, !.sender = s,
                                                        !.text = currentUser[s]])
                                   : id \in NewlyRead(room.messages, messageIds, s)}
            /\ last' = Event("mark-read", s, None, Head(messageIds), messageIds)
            /\ UNCHANGED <<conn, currentRoom, currentUser, chan, timers, saveTimeout,
                           disk, useFirebase, loading, now, nextId, restarts, savedState,
                   client, net>>

\* Mutant of MayMutate: the sender check is missing
MayMutateAnyone(message, s) == TRUE

\* The guard of edit-message and of delete-message
MayMutate(message, s) == message.senderId = s

\* socket.on('edit-message')
EditMessage(s, messageId, newContent) ==
    /\ conn[s] = "open"
    /\ IF currentRoom[s] = None
          \/ FindIndex(rooms[currentRoom[s]].messages, messageId) = 0
          \/ ~MayMutate(rooms[currentRoom[s]].messages[
                            FindIndex(rooms[currentRoom[s]].messages, messageId)], s)
       THEN Drop(Event("edit-message", s, None, messageId, newContent))
       ELSE /\ LET cr == currentRoom[s]
                   room == rooms[cr]
                   i == FindIndex(room.messages, messageId)
               IN /\ rooms' = PutRoom(cr, [room EXCEPT !.messages[i].content = newContent,
                                                        !.messages[i].edited = TRUE,
                                                        !.messages[i].editedAt = now])
                  /\ out' = Emit(InChannel(cr), "message-edited",
                                 [Payload EXCEPT !.mid = messageId, !.text = newContent,
                                                 !.num = now])
            /\ saveTimeout' = saveRooms
            /\ last' = Event("edit-message", s, None, messageId, newContent)
            /\ UNCHANGED <<conn, currentRoom, currentUser, chan, timers, disk,
                           useFirebase, loading, now, nextId, restarts, savedState,
                   client, net>>

\* delete-message as a removal: room.messages.splice(i, 1) in place of the
\* redaction in place
DeleteMessageSplice(s, messageId) ==
    /\ conn[s] = "open"
    /\ IF currentRoom[s] = None
          \/ FindIndex(rooms[currentRoom[s]].messages, messageId) = 0
          \/ ~MayMutate(rooms[currentRoom[s]].messages[
                            FindIndex(rooms[currentRoom[s]].messages, messageId)], s)
       THEN Drop(Event("delete-message", s, None, messageId, None))
       ELSE /\ LET cr == currentRoom[s]
                   room == rooms[cr]
                   i == FindIndex(room.messages, messageId)
               IN /\ rooms' = PutRoom(cr, [room EXCEPT !.messages = RemoveAt(@, i)])
                  /\ out' = Emit(InChannel(cr), "message-deleted",
                                 [Payload EXCEPT !.mid = messageId])
            /\ saveTimeout' = saveRooms
            /\ last' = Event("delete-message", s, None, messageId, None)
            /\ UNCHANGED <<conn, currentRoom, currentUser, chan, timers, disk,
                           useFirebase, loading, now, nextId, restarts, savedState,
                   client, net>>

\* socket.on('delete-message')
DeleteMessage(s, messageId) ==
    /\ conn[s] = "open"
    /\ IF currentRoom[s] = None
          \/ FindIndex(rooms[currentRoom[s]].messages, messageId) = 0
          \/ ~MayMutate(rooms[currentRoom[s]].messages[
                            FindIndex(rooms[currentRoom[s]].messages, messageId)], s)
       THEN Drop(Event("delete-message", s, None, messageId, None))
       ELSE /\ LET cr == currentRoom[s]
                   room == rooms[cr]
                   i == FindIndex(room.messages, messageId)
               IN /\ rooms' = PutRoom(cr, [room EXCEPT !.messages[i].deleted = TRUE,
                                                        !.messages[i].content = DeletedText])
                  /\ out' = Emit(InChannel(cr), "message-deleted",
                                 [Payload EXCEPT !.mid = messageId])
            /\ saveTimeout' = saveRooms
            /\ last' = Event("delete-message", s, None, messageId, None)
            /\ UNCHANGED <<conn, currentRoom, currentUser, chan, timers, disk,
                           useFirebase, loading, now, nextId, restarts, savedState,
                   client, net>>

\* socket.on('update-settings'): { ...room.settings, ...settings }
UpdateSettings(s, patch) ==
    /\ conn[s] = "open"
    /\ IF currentRoom[s] = None
       THEN Drop(Event("update-settings", s, None, 0, None))
       ELSE /\ LET cr == currentRoom[s]
                   room == rooms[cr]
                   settings == [k \in DOMAIN room.settings \cup DOMAIN patch |->
                                   IF k \in DOMAIN patch THEN patch[k] ELSE room.settings[k]]
               IN /\ rooms' = PutRoom(cr, [room EXCEPT !.settings = settings])
                  /\ out' = Emit(InChannel(cr), "settings-updated",
                                 [Payload EXCEPT !.num = settings.disappearingMessages])
            /\ last' = Event("update-settings", s, None, 0, None)
            /\ UNCHANGED <<conn, currentRoom, currentUser, chan, timers, saveTimeout,
                           disk, useFirebase, loading, now, nextId, restarts, savedState,
                   client, net>>

\* The callback of the disappearance setTimeout of send-message
DisappearFire(t) ==
    /\ t \in timers
    /\ t.kind = "disappear"
    /\ now >= t.due
    /\ timers' = timers \ {t}
    /\ LET room == rooms[t.room]
           i == FindIndex(room.messages, t.mid)
       IN /\ rooms' = IF t.orphan THEN rooms
                      ELSE PutRoom(t.room, [room EXCEPT !.messages[i].deleted = TRUE,
                                                         !.messages[i].content = DisappearedText])
          /\ out' = Emit(InChannel(currentRoom[t.owner]), "message-deleted",
                         [Payload EXCEPT !.mid = t.mid])
    /\ last' = Event("disappear", t.owner, t.room, t.mid, None)
    /\ UNCHANGED <<conn, currentRoom, currentUser, chan, saveTimeout, disk,
                   useFirebase, loading, now, nextId, restarts, savedState,
                   client, net>>

-----------------------------------------------------------------------------
(* Relays and eviction *)

\* socket.on('voice-signal')
VoiceSignal(s, targetId, signal) ==
    /\ conn[s] = "open"
    /\ out' = Emit(InChannel(targetId), "voice-signal",
                   [Payload EXCEPT !.sender = s, !.text = signal])
    /\ last' = Event("voice-signal", s, targetId, 0, signal)
    /\ UNCHANGED <<conn, currentRoom, currentUser, chan, rooms, timers, saveTimeout,
                   disk, useFirebase, loading, now, nextId, restarts, savedState,
                   client, net>>

\* Mutant of HandshakeInit: io.to(currentRoom) instead of socket.to(currentRoom)
HandshakeInitEcho(s, pk) ==
    /\ conn[s] = "open"
    /\ IF currentRoom[s] = None
       THEN Drop(Event("handshake-init", s, None, 0, pk))
       ELSE /\ out' = Emit(InChannel(currentRoom[s]), "handshake-request",
                           [Payload EXCEPT !.sender = s, !.text = pk])
            /\ last' = Event("handshake-init", s, None, 0, pk)
            /\ UNCHANGED <<conn, currentRoom, currentUser, chan, rooms, timers,
                           saveTimeout, disk, useFirebase, loading, now, nextId,
                           restarts, savedState,
                   client, net>>

\* socket.on('handshake-init')
HandshakeInit(s, pk) ==
    /\ conn[s] = "open"
    /\ IF currentRoom[s] = None
       THEN Drop(Event("handshake-init", s, None, 0, pk))
       ELSE /\ out' = Emit(InChannel(currentRoom[s]) \ {s}, "handshake-request",
                           [Payload EXCEPT !.sender = s, !.text = pk])
            /\ last' = Event("handshake-init", s, None, 0, pk)
            /\ UNCHANGED <<conn, currentRoom, currentUser, chan, rooms, timers,
                           saveTimeout, disk, useFirebase, loading, now, nextId, restarts, savedState,
                   client, net>>

\* socket.on('handshake-response')
HandshakeResponse(s, targetId, ciphertext, encryptedKey) ==
    /\ conn[s] = "open"
    /\ out' = Emit(InChannel(targetId), "handshake-complete",
                   [Payload EXCEPT !.text = ciphertext, !.aux = encryptedKey])
    /\ last' = Event("handshake-response", s, targetId, 0, ciphertext)
    /\ UNCHANGED <<conn, currentRoom, currentUser, chan, rooms, timers, saveTimeout,
                   disk, useFirebase, loading, now, nextId, restarts, savedState,
                   client, net>>

\* Mutant of MayKick: the creator check is missing
MayKickAnyone(room, userName) == TRUE

\* The guard of kick-member: "Verify only creator can kick"
MayKick(room, userName) == room.createdBy = userName

\* kick-member without targetSocket.leave(currentRoom)
KickMemberNoLeave(s, targetId) ==
    /\ conn[s] = "open"
    /\ IF currentRoom[s] = None
          \/ currentRoom[s] \notin DOMAIN rooms
          \/ ~MayKick(rooms[currentRoom[s]], currentUser[s])
       THEN Drop(Event("kick-member", s, targetId, 0, None))
       ELSE /\ LET cr == currentRoom[s]
                   room == removeMember(rooms[cr], targetId)
                   \* io.sockets.sockets.get(targetId)
                   targetSocket == {t \in Sessions : t = targetId /\ conn[t] = "open"}
                   left == chan
               IN /\ rooms' = PutRoom(cr, room)
                  /\ chan' = left
                  /\ out' = Emit(targetSocket, "kicked", [Payload EXCEPT !.text = cr])
                            \cup Emit({t \in Sessions : conn[t] = "open"
                                                        /\ (t = cr \/ cr \in left[t])},
                                      "user-left",
                                      [Payload EXCEPT !.sender = targetId,
                                                      !.members = getMembersList(room)])
            /\ saveTimeout' = saveRooms
            /\ last' = Event("kick-member", s, targetId, 0, None)
            /\ UNCHANGED <<conn, currentRoom, currentUser, timers, disk, useFirebase,
                           loading, now, nextId, restarts, savedState,
                   client, net>>

\* socket.on('kick-member')
KickMember(s, targetId) ==
    /\ conn[s] = "open"
    /\ IF currentRoom[s] = None
          \/ currentRoom[s] \notin DOMAIN rooms
          \/ ~MayKick(rooms[currentRoom[s]], currentUser[s])
       THEN Drop(Event("kick-member", s, targetId, 0, None))
       ELSE /\ LET cr == currentRoom[s]
                   room == removeMember(rooms[cr], targetId)
                   \* io.sockets.sockets.get(targetId)
                   targetSocket == {t \in Sessions : t = targetId /\ conn[t] = "open"}
                   left == [t \in Sessions |->
                               IF t \in targetSocket THEN chan[t] \ {cr} ELSE chan[t]]
               IN /\ rooms' = PutRoom(cr, room)
                  /\ chan' = left
                  /\ out' = Emit(targetSocket, "kicked", [Payload EXCEPT !.text = cr])
                            \cup Emit({t \in Sessions : conn[t] = "open"
                                                        /\ (t = cr \/ cr \in left[t])},
                                      "user-left",
                                      [Payload EXCEPT !.sender = targetId,
                                                      !.members = getMembersList(room)])
            /\ saveTimeout' = saveRooms
            /\ last' = Event("kick-member", s, targetId, 0, None)
            /\ UNCHANGED <<conn, currentRoom, currentUser, timers, disk, useFirebase,
                           loading, now, nextId, restarts, savedState,
                   client, net>>

-----------------------------------------------------------------------------
(* Persistence *)

\* The local snapshot of a room: JSON.stringify({...room, members: entries})
LocalDoc(room) ==
    [createdBy |-> room.createdBy,
     members   |-> {<<k, room.members[k]>> : k \in DOMAIN room.members},
     messages  |-> room.messages,
     settings  |-> room.settings]

\* The cloud document of a room: no members
CloudDoc(room) ==
    [createdBy |-> room.createdBy,
     messages  |-> room.messages,
     settings  |-> room.settings]

\* loadRooms, local branch: a new Room with the saved settings and messages
LoadLocal(doc) ==
    [Room(doc.createdBy) EXCEPT !.settings = doc.settings, !.messages = doc.messages]

\* loadRooms, cloud branch: each message goes through new Message(m), then
\* id, timestamp, reactions, readBy and fileData are copied over
HydrateMessage(m) ==
    [Message(m.id, m.roomId, m.senderId, m.senderName, m.content, m.type,
             m.replyTo, m.fileData, m.disappearAt)
        EXCEPT !.reactions = m.reactions, !.readBy = m.readBy, !.fileData = m.fileData]

LoadCloud(doc) ==
    [Room(doc.createdBy) EXCEPT
        !.settings = doc.settings,
        !.messages = [i \in 1..Len(doc.messages) |-> HydrateMessage(doc.messages[i])]]

\* The snapshot file after a crash in the middle of fs.writeFileSync: the file
\* was truncated and written in part, and is not valid JSON.
TornFile == [part \in {"partial"} |-> "partial"]

\* loadRooms, local branch: JSON.parse throws on a torn file, the catch logs
\* the error and the rooms map stays empty
LoadFile(file) ==
    IF file = TornFile THEN EmptyMap ELSE [r \in DOMAIN file |-> LoadLocal(file[r])]

\* The callback of the save timer set by saveRooms
SaveFire ==
    /\ \E due \in saveTimeout.pending :
          /\ now >= due
          /\ saveTimeout' = [saveTimeout EXCEPT !.pending = @ \ {due}]
    /\ disk' = IF useFirebase
               THEN [r \in DOMAIN disk \cup DOMAIN rooms |->
                        IF r \in DOMAIN rooms THEN CloudDoc(rooms[r]) ELSE disk[r]]
               ELSE [r \in DOMAIN rooms |-> LocalDoc(rooms[r])]
    /\ out' = {}
    /\ last' = Event("save", None, None, 0, None)
    /\ UNCHANGED <<conn, currentRoom, currentUser, chan, rooms, timers, useFirebase,
                   loading, now, nextId, restarts, savedState,
                   client, net>>

\* The process stops and starts again: memory is lost, every socket is gone,
\* and initPersistence() runs.  The local load is synchronous; the cloud
\* load awaits the store while the server already accepts connections.
Restart ==
    /\ restarts < MaxRestarts
    /\ restarts' = restarts + 1
    /\ conn' = [s \in Sessions |-> IF conn[s] = "open" THEN "closed" ELSE conn[s]]
    /\ currentRoom' = [s \in Sessions |-> None]
    /\ currentUser' = [s \in Sessions |-> None]
    /\ chan' = [s \in Sessions |-> {}]
    /\ timers' = {}
    /\ saveTimeout' = NoSaveTimer
    /\ rooms' = IF useFirebase THEN EmptyMap ELSE LoadFile(disk)
    /\ loading' = useFirebase
    /\ savedState' = Restrict(rooms, {r \in DOMAIN rooms \cap DOMAIN disk :
                                         disk[r] = IF useFirebase THEN CloudDoc(rooms[r])
                                                   ELSE LocalDoc(rooms[r])})
    /\ out' = {}
    /\ last' = Event("restart", None, None, 0, None)
    /\ UNCHANGED <<disk, useFirebase, now, nextId, client, net>>

\* The process is killed while the save callback is inside fs.writeFileSync
\* (local variant) and starts again: the file is left torn.
CrashInSave ==
    /\ ~useFirebase
    /\ restarts < MaxRestarts
    /\ \E due \in saveTimeout.pending : now >= due
    /\ disk' = TornFile
    /\ restarts' = restarts + 1
    /\ conn' = [s \in Sessions |-> IF conn[s] = "open" THEN "closed" ELSE conn[s]]
    /\ currentRoom' = [s \in Sessions |-> None]
    /\ currentUser' = [s \in Sessions |-> None]
    /\ chan' = [s \in Sessions |-> {}]
    /\ timers' = {}
    /\ saveTimeout' = NoSaveTimer
    /\ rooms' = LoadFile(TornFile)
    /\ loading' = FALSE
    /\ savedState' = EmptyMap
    /\ out' = {}
    /\ last' = Event("crash", None, None, 0, None)
    /\ UNCHANGED <<useFirebase, now, nextId, client, net>>

\* loadRooms, cloud branch, after the await: rooms.set(room.id, room) per document
LoadComplete ==
    /\ loading
    /\ loading' = FALSE
    /\ rooms' = [r \in DOMAIN rooms \cup DOMAIN disk |->
                    IF r \in DOMAIN disk THEN LoadCloud(disk[r]) ELSE rooms[r]]
    /\ timers' = {IF t.room \in DOMAIN disk THEN [t EXCEPT !.orphan = TRUE] ELSE t
                  : t \in timers}
    /\ out' = {}
    /\ last' = Event("load", None, None, 0, None)
    /\ UNCHANGED <<conn, currentRoom, currentUser, chan, saveTimeout, disk,
                   useFirebase, now, nextId, restarts, savedState,
                   client, net>>

\* Time passes.  A setTimeout callback runs no earlier than its due time; how
\* much later is not fixed, so a due timer does not stop the clock.
Tick(d) ==
    /\ now + d <= MaxTime
    /\ now' = now + d
    /\ out' = {}
    /\ last' = Event("tick", None, None, 0, None)
    /\ UNCHANGED <<conn, currentRoom, currentUser, chan, rooms, timers, saveTimeout,
                   disk, useFirebase, loading, nextId, restarts, savedState,
                   client, net>>

-----------------------------------------------------------------------------
(* Call signalling router.  The clients emit and listen to the call events  *)
(* (sovereign-calls.js); the server's relay of them is described by the     *)
(* specification, section 4.6.                                              *)

CallEvents ==
    {"call-invite", "call-accept", "call-reject", "call-signal", "call-end",
     "call-media-handshake"}

\* A call relay that reaches every socket of the sender's room but the sender
CallRelayToRoom(s, ev, targetId) ==
    /\ conn[s] = "open"
    /\ IF currentRoom[s] = None
          \/ currentRoom[s] \notin DOMAIN rooms
          \/ s \notin DOMAIN rooms[currentRoom[s]].members
          \/ targetId \notin DOMAIN rooms[currentRoom[s]].members
       THEN Drop(Event(ev, s, targetId, 0, None))
       ELSE /\ out' = Emit(InChannel(currentRoom[s]) \ {s}, ev,
                           [Payload EXCEPT !.sender = s])
            /\ last' = Event(ev, s, targetId, 0, None)
            /\ UNCHANGED <<conn, currentRoom, currentUser, chan, rooms, timers,
                           saveTimeout, disk, useFirebase, loading, now, nextId,
                           restarts, savedState,
                   client, net>>

\* Targeted relay: unicast to targetId within the sender's room, with the
\* sender's session id attached; a target outside the room is a drop.
CallRelay(s, ev, targetId) ==
    /\ conn[s] = "open"
    /\ IF currentRoom[s] = None
          \/ currentRoom[s] \notin DOMAIN rooms
          \/ s \notin DOMAIN rooms[currentRoom[s]].members
          \/ targetId \notin DOMAIN rooms[currentRoom[s]].members
       THEN Drop(Event(ev, s, targetId, 0, None))
       ELSE /\ out' = Emit({t \in Sessions : t = targetId /\ conn[t] = "open"}, ev,
                           [Payload EXCEPT !.sender = s])
            /\ last' = Event(ev, s, targetId, 0, None)
            /\ UNCHANGED <<conn, currentRoom, currentUser, chan, rooms, timers,
                           saveTimeout, disk, useFirebase, loading, now, nextId,
                           restarts, savedState,
                   client, net>>

-----------------------------------------------------------------------------
(* The browser client: AESChatApp.joinRoom / handleRoomJoin and the         *)
(* HandshakeManager.  A client emits events, which the server's handlers    *)
(* take up, and receives the server's deliveries from the network in any    *)
(* order and after any delay.                                               *)

\* The room key a client generates itself
KeyOf(c) == c

\* A client's emit that the server has not handled yet
Emitted(ev, target, text, aux) == [ev |-> ev, target |-> target, text |-> text, aux |-> aux]

\* The events of the server that the modelled client handlers listen to
ClientListens == {"room-joined", "handshake-request", "handshake-complete"}

\* The server handlers that the client's emits set off
ClientEmits == {"join-room", "handshake-init", "handshake-response"}

\* No handler of the server is between its run and the hand-over of its
\* deliveries to the network.
Settled == last.ev \notin ClientEmits

\* Every step of the client leaves the server alone
ClientStep(c, ev) ==
    /\ out' = {}
    /\ last' = Event(ev, c, None, 0, None)
    /\ UNCHANGED <<conn, currentRoom, currentUser, chan, rooms, timers, saveTimeout,
                   disk, useFirebase, loading, now, nextId, restarts, savedState>>

\* AESChatApp.joinRoom: io(), then emit join-room
ClientJoinRoom(c, roomId) ==
    /\ Settled
    /\ conn[c] = "open"
    /\ ~client[c].joining
    /\ client' = [client EXCEPT ![c].joining = TRUE,
                                ![c].emits = @ \cup {Emitted("join-room", roomId, None, None)}]
    /\ net' = net
    /\ ClientStep(c, "client-join")

\* The server's deliveries of the handler that has just run go onto the network,
\* and the emit it has handled is done.
Transmit ==
    /\ ~Settled
    /\ net' = net \cup {d \in out : d.ev \in ClientListens}
    /\ client' = [client EXCEPT ![last.s].emits =
                     {e \in @ : ~(e.ev = last.ev /\ e.target = last.target)}]
    /\ out' = {}
    /\ last' = Event("transmit", last.s, None, 0, None)
    /\ UNCHANGED <<conn, currentRoom, currentUser, chan, rooms, timers, saveTimeout,
                   disk, useFirebase, loading, now, nextId, restarts, savedState>>

\* socket.on('room-joined') -> handleRoomJoin, for a tab with no stored key:
\* alone in the room, generate the room key; otherwise initiateHandshake, which
\* listens for handshake-complete, emits handshake-init and starts the timer.
ClientRoomJoined(c, d) ==
    /\ Settled
    /\ d \in net /\ d.to = c /\ d.ev = "room-joined"
    /\ net' = net \ {d}
    /\ client' =
         IF client[c].encryptionKey # None
         THEN [client EXCEPT ![c].manager = TRUE]
         ELSE IF Cardinality(d.p.members) = 1
         THEN [client EXCEPT ![c].manager = TRUE, ![c].encryptionKey = KeyOf(c)]
         ELSE [client EXCEPT ![c].manager = TRUE,
                             ![c].handshake = "waiting",
                             ![c].listening = TRUE,
                             ![c].timer = TRUE,
                             ![c].emits = @ \cup {Emitted("handshake-init", None, c, None)}]
    /\ ClientStep(c, "client-room-joined")

\* socket.on('handshake-request') -> handleHandshakeRequest: a client that holds
\* a key encapsulates for the requester's public key and emits
\* handshake-response; a client without a key does nothing.
ClientHandshakeRequest(c, d) ==
    /\ Settled
    /\ d \in net /\ d.to = c /\ d.ev = "handshake-request"
    /\ net' = net \ {d}
    /\ client' =
         IF client[c].manager /\ client[c].encryptionKey # None
         THEN [client EXCEPT ![c].emits =
                  @ \cup {Emitted("handshake-response", d.p.sender, d.p.text,
                                  client[c].encryptionKey)}]
         ELSE client
    /\ ClientStep(c, "client-handshake-request")

\* Kyber768.decapsulate and decryptRoomKey: the key comes out when the
\* ciphertext was made for this client's public key, and the call throws
\* otherwise
Decapsulates(c, ciphertext) == ciphertext = c

\* onComplete of initiateHandshake, and a handshake-complete that finds no
\* listener
ClientHandshakeComplete(c, d) ==
    /\ Settled
    /\ d \in net /\ d.to = c /\ d.ev = "handshake-complete"
    /\ net' = net \ {d}
    /\ client' =
         IF ~client[c].listening \/ client[c].completed
         THEN client
         ELSE IF Decapsulates(c, d.p.text)
         THEN [client EXCEPT ![c].completed = TRUE,
                             ![c].listening = FALSE,
                             ![c].handshake = "peer",
                             ![c].settled = @ + 1,
                             ![c].encryptionKey = d.p.aux]
         ELSE [client EXCEPT ![c].completed = TRUE,
                             ![c].handshake = "failed",
                             ![c].settled = @ + 1]
    /\ ClientStep(c, "client-handshake-complete")

\* The timeout callback without its `if (!completed)` test
ClientTimeoutUnguarded(c) ==
    /\ Settled
    /\ client[c].timer
    /\ net' = net
    /\ client' =
         IF FALSE
         THEN [client EXCEPT ![c].timer = FALSE]
         ELSE [client EXCEPT ![c].timer = FALSE,
                             ![c].completed = TRUE,
                             ![c].listening = FALSE,
                             ![c].handshake = "host",
                             ![c].settled = @ + 1,
                             ![c].encryptionKey = KeyOf(c)]
    /\ ClientStep(c, "client-timeout")

\* The setTimeout callback of initiateHandshake, 2 seconds after the emit
ClientTimeout(c) ==
    /\ Settled
    /\ client[c].timer
    /\ net' = net
    /\ client' =
         IF client[c].completed
         THEN [client EXCEPT ![c].timer = FALSE]
         ELSE [client EXCEPT ![c].timer = FALSE,
                             ![c].completed = TRUE,
                             ![c].listening = FALSE,
                             ![c].handshake = "host",
                             ![c].settled = @ + 1,
                             ![c].encryptionKey = KeyOf(c)]
    /\ ClientStep(c, "client-timeout")

-----------------------------------------------------------------------------
(* The ephemeral server variant (src/unnamed/part_003, lines 1-468): no     *)
(* persistence, and empty rooms are cleaned up.                             *)

\* socket.on('join-room'), ephemeral variant
JoinRoomEphemeral(s, roomId, userName) ==
    /\ conn[s] = "open"
    /\ LET base == IF roomId \in DOMAIN rooms THEN rooms[roomId] ELSE Room(userName)
           room == addMember(base, s, userName)
       IN /\ rooms' = PutRoom(roomId, room)
          /\ out' = Emit({s}, "room-joined",
                          [Payload EXCEPT !.text = roomId,
                                          !.members = getMembersList(room),
                                          !.msgs = SliceLast(room.messages,
                                                             EphemeralHistoryLimit),
                                          !.num = room.settings.disappearingMessages])
                     \cup Emit(InChannel(roomId) \ {s}, "user-joined",
                               [Payload EXCEPT !.sender = s, !.text = userName,
                                               !.members = getMembersList(room)])
    /\ currentRoom' = [currentRoom EXCEPT ![s] = roomId]
    /\ currentUser' = [currentUser EXCEPT ![s] = userName]
    /\ chan' = [chan EXCEPT ![s] = @ \cup {roomId}]
    /\ last' = Event("join-room", s, roomId, 0, userName)
    /\ UNCHANGED <<conn, timers, saveTimeout, disk, useFirebase, loading, now, nextId,
                   restarts, savedState,
                   client, net>>

\* socket.on('send-message'), ephemeral variant
SendMessageEphemeral(s, content, replyTo) ==
    /\ conn[s] = "open"
    /\ IF currentRoom[s] = None \/ currentRoom[s] \notin DOMAIN rooms
       THEN Drop(Event("send-message", s, None, 0, content))
       ELSE /\ nextId <= MaxMsgs
            /\ LET cr == currentRoom[s]
                   room == rooms[cr]
                   ttl == room.settings.disappearingMessages
                   message == Message(nextId, cr, s, currentUser[s], content, "text",
                                      replyTo, None,
                                      IF ttl # 0 THEN now + ttl ELSE NoTime)
               IN /\ rooms' = PutRoom(cr, [room EXCEPT !.messages = Append(@, message)])
                  /\ out' = Emit(InChannel(cr), "message",
                                 [Payload EXCEPT !.sender = s, !.mid = message.id,
                                                 !.text = content, !.msgs = <<message>>])
                  /\ timers' = IF message.disappearAt # NoTime
                               THEN timers \cup {Timer(s, cr, message.id, now + ttl)}
                               ELSE timers
            /\ nextId' = nextId + 1
            /\ last' = Event("send-message", s, None, nextId, content)
            /\ UNCHANGED <<conn, currentRoom, currentUser, chan, saveTimeout, disk,
                           useFirebase, loading, now, restarts, savedState,
                   client, net>>

\* The cleanup timer of an emptied room.  Its callback holds the Room object
\* (room) and the disconnected socket's currentRoom.
CleanupTimer(owner, roomId, due) ==
    [kind |-> "cleanup", owner |-> owner, room |-> roomId, mid |-> 0, due |-> due,
     orphan |-> FALSE]

\* socket.on('disconnect'), ephemeral variant
DisconnectEphemeral(s) ==
    /\ conn[s] = "open"
    /\ conn' = [conn EXCEPT ![s] = "closed"]
    /\ chan' = [chan EXCEPT ![s] = {}]
    /\ IF currentRoom[s] # None /\ currentUser[s] # None /\ currentRoom[s] \in DOMAIN rooms
       THEN LET room == removeMember(rooms[currentRoom[s]], s)
            IN /\ rooms' = PutRoom(currentRoom[s], room)
               /\ out' = Emit(InChannel(currentRoom[s]) \ {s}, "user-left",
                               [Payload EXCEPT !.sender = s, !.text = currentUser[s],
                                               !.members = getMembersList(room)])
               /\ timers' = IF DOMAIN room.members = {}
                            THEN timers \cup {CleanupTimer(s, currentRoom[s],
                                                           now + CleanupDelay)}
                            ELSE timers
       ELSE /\ rooms' = rooms
            /\ out' = {}
            /\ timers' = timers
    /\ last' = Event("disconnect", s, None, 0, None)
    /\ UNCHANGED <<currentRoom, currentUser, saveTimeout, disk, useFirebase, loading,
                   now, nextId, restarts, savedState,
                   client, net>>

\* The callback of the cleanup timer: if the Room object it holds has no
\* members, rooms.delete(currentRoom).  A callback whose Room object is no
\* longer the one in the map (orphan) sees its own, empty, object.
CleanupFire(t) ==
    /\ t \in timers
    /\ t.kind = "cleanup"
    /\ now >= t.due
    /\ IF t.orphan \/ (t.room \in DOMAIN rooms /\ DOMAIN rooms[t.room].members = {})
       THEN /\ rooms' = Restrict(rooms, DOMAIN rooms \ {t.room})
            /\ timers' = {IF u.room = t.room /\ t.room \in DOMAIN rooms
                          THEN [u EXCEPT !.orphan = TRUE] ELSE u
                          : u \in timers \ {t}}
       ELSE /\ rooms' = rooms
            /\ timers' = timers \ {t}
    /\ out' = {}
    /\ last' = Event("cleanup", t.owner, t.room, 0, None)
    /\ UNCHANGED <<conn, currentRoom, currentUser, chan, saveTimeout, disk,
                   useFirebase, loading, now, nextId, restarts, savedState,
                   client, net>>

\* A point in time seen d later, with the clock's origin moved by d; a time
\* that has passed stays at the origin.
Shift(x, d) == IF x = NoTime THEN NoTime ELSE IF x - d < now THEN now ELSE x - d

ShiftRoom(room, d) ==
    [room EXCEPT !.messages =
        [i \in 1..Len(room.messages) |->
            [room.messages[i] EXCEPT !.disappearAt = Shift(room.messages[i].disappearAt, d),
                                     !.editedAt = Shift(room.messages[i].editedAt, d)]]]

ShiftFile(file, d) ==
    IF file = TornFile THEN file ELSE [r \in DOMAIN file |-> ShiftRoom(file[r], d)]

\* Time passes, as in Tick, with every stored time counted from the new
\* moment: the clock's value stays and the stored times move back by d.
Elapse(d) ==
    /\ saveTimeout' = [handle  |-> Shift(saveTimeout.handle, d),
                       pending |-> {Shift(x, d) : x \in saveTimeout.pending}]
    /\ timers' = {[t EXCEPT !.due = Shift(t.due, d)] : t \in timers}
    /\ rooms' = [r \in DOMAIN rooms |-> ShiftRoom(rooms[r], d)]
    /\ disk' = ShiftFile(disk, d)
    /\ savedState' = [r \in DOMAIN savedState |-> ShiftRoom(savedState[r], d)]
    /\ out' = {}
    /\ last' = Event("tick", None, None, 0, None)
    /\ UNCHANGED <<conn, currentRoom, currentUser, chan, useFirebase, loading, now,
                   nextId, restarts, client, net>>

-----------------------------------------------------------------------------
(* Specifications.  Each explores the handlers over the part of the input   *)
(* space its claims are about.                                              *)

\* The display name a client gives in join-room: s1 and s3 share one.
ClientName(s) == IF s = "s2" THEN "bob" ELSE "alice"

\* Membership, eviction and the relays: three sockets, two rooms.
Next ==
    \/ \E s \in Sessions : Connect(s)
    \/ \E s \in Sessions, r \in RoomIds : JoinRoom(s, r, ClientName(s))
    \/ \E s \in Sessions : Disconnect(s)
    \/ \E s \in Sessions, t \in TargetIds : VoiceSignal(s, t, "sig")
    \/ \E s \in Sessions : HandshakeInit(s, "pk")
    \/ \E s \in Sessions, t \in TargetIds : HandshakeResponse(s, t, "ct", "ek")
    \/ \E s \in Sessions, t \in Sessions : KickMember(s, t)

Spec == Init /\ [][Next]_vars

\* The message log of one room: s1 posts, both sockets edit, delete and change
\* the settings, join and leave, and disappearance timers fire.
MsgSessions == {"s1", "s2"}

NextMsg ==
    \/ \E s \in MsgSessions : Connect(s)
    \/ \E s \in MsgSessions : JoinRoom(s, "r1", ClientName(s))
    \/ \E s \in MsgSessions : Disconnect(s)
    \/ \E c \in Contents : SendMessage("s1", c, 0)
    \/ VoiceMessage("s1")
    \/ \E s \in MsgSessions, m \in 1..MaxMsgs, c \in NewContents : EditMessage(s, m, c)
    \/ \E s \in MsgSessions, m \in 1..MaxMsgs : DeleteMessage(s, m)
    \/ \E s \in MsgSessions, v \in {0, DisappearAfter} :
          UpdateSettings(s, [disappearingMessages |-> v])
    \/ \E t \in timers : DisappearFire(t)
    \/ Tick(DisappearAfter)

SpecMsg == Init /\ [][NextMsg]_vars

\* Eviction and posting: a room is created over HTTP or by the first join, two
\* sockets join it, evict each other, leave, and s1 posts.
NextEvict ==
    \/ \E n \in Names : CreateRoom("r1", n)
    \/ \E s \in MsgSessions : Connect(s)
    \/ \E s \in MsgSessions : JoinRoom(s, "r1", ClientName(s))
    \/ \E s \in MsgSessions : Disconnect(s)
    \/ \E s \in MsgSessions, t \in MsgSessions : KickMember(s, t)
    \/ \E c \in Contents : SendMessage("s1", c, 0)
    \/ VoiceMessage("s1")

SpecEvict == Init /\ [][NextEvict]_vars

\* Persistence: s1 fills a room (posts, reacts to and edits the first message,
\* deletes the last), the state is saved, the process restarts and loads in
\* either variant, and the client joins again.
PersistSessions == {"s1", "s2"}

InitPersist ==
    /\ conn = [s \in Sessions |-> "new"]
    /\ currentRoom = [s \in Sessions |-> None]
    /\ currentUser = [s \in Sessions |-> None]
    /\ chan = [s \in Sessions |-> {}]
    /\ rooms = EmptyMap
    /\ timers = {}
    /\ saveTimeout = NoSaveTimer
    /\ disk = EmptyMap
    /\ useFirebase \in BOOLEAN
    /\ loading = FALSE
    /\ now = 0
    /\ nextId = 1
    /\ restarts = 0
    /\ savedState = EmptyMap
    /\ client = [s \in Sessions |-> NoClient]
    /\ net = {}
    /\ out = {}
    /\ last = Event("init", None, None, 0, None)

NextPersist ==
    \/ \E s \in PersistSessions : Connect(s)
    \/ \E s \in PersistSessions : JoinRoom(s, "r1", ClientName(s))
    \/ \E c \in Contents : SendMessage("s1", c, 0)
    \/ \E e \in Emojis : AddReaction("s1", 1, e)
    \/ \E c \in NewContents : EditMessage("s1", 1, c)
    \/ DeleteMessage("s1", MaxMsgs)
    \/ UpdateSettings("s1", [disappearingMessages |-> DisappearAfter])
    \/ \E t \in timers : DisappearFire(t)
    \/ Tick(DisappearAfter)
    \/ SaveFire
    \/ Restart
    \/ LoadComplete

SpecPersist == InitPersist /\ [][NextPersist]_vars

\* Disappearance timers: a socket posts disappearing messages in one room and
\* moves to another while a second socket stays in the first.
NextTimer ==
    \/ \E s \in MsgSessions : Connect(s)
    \/ \E r \in RoomIds : JoinRoom("s1", r, ClientName("s1"))
    \/ JoinRoom("s2", "r1", ClientName("s2"))
    \/ \E s \in MsgSessions : Disconnect(s)
    \/ UpdateSettings("s1", [disappearingMessages |-> DisappearAfter])
    \/ \E c \in Contents : SendMessage("s1", c, 0)
    \/ \E t \in timers : DisappearFire(t)
    \/ Tick(DisappearAfter)

SpecTimer == Init /\ [][NextTimer]_vars

\* Timers across a restart: one socket posts disappearing messages, time passes
\* second by second, the process saves, restarts and loads in either variant.
NextReload ==
    \/ \E s \in MsgSessions : Connect(s)
    \/ \E s \in MsgSessions : JoinRoom(s, "r1", ClientName(s))
    \/ UpdateSettings("s1", [disappearingMessages |-> DisappearAfter])
    \/ \E c \in Contents : SendMessage("s1", c, 0)
    \/ \E t \in timers : DisappearFire(t)
    \/ Tick(1)
    \/ SaveFire
    \/ Restart
    \/ LoadComplete

SpecReload == InitPersist /\ [][NextReload]_vars

\* The snapshot coalescer: sockets join and post second by second, the save
\* timer fires, the process restarts or is killed inside a save.
NextSave ==
    \/ \E s \in MsgSessions : Connect(s)
    \/ \E s \in MsgSessions : JoinRoom(s, "r1", ClientName(s))
    \/ \E c \in Contents : SendMessage("s1", c, 0)
    \/ Tick(1)
    \/ SaveFire
    \/ Restart
    \/ CrashInSave

SpecSave == Init /\ [][NextSave]_vars

\* The snapshot coalescer over unbounded time: timers fire when they are due
\* and time keeps passing.
NextSaveLive ==
    \/ \E s \in MsgSessions : Connect(s)
    \/ \E s \in MsgSessions : JoinRoom(s, "r1", ClientName(s))
    \/ \E c \in Contents : SendMessage("s1", c, 0)
    \/ Elapse(1)
    \/ SaveFire

SpecSaveLive ==
    Init /\ [][NextSaveLive]_vars /\ WF_vars(Elapse(1)) /\ WF_vars(SaveFire)

\* Reactions: two sockets in one room toggle two emojis on s1's first and
\* last message, and s1 deletes the first.
EmojiKeys == {"e1", "e2"}

NextReact ==
    \/ \E s \in MsgSessions : Connect(s)
    \/ \E s \in MsgSessions : JoinRoom(s, "r1", ClientName(s))
    \/ \E s \in MsgSessions : Disconnect(s)
    \/ \E c \in Contents : SendMessage("s1", c, 0)
    \/ \E s \in MsgSessions, m \in {1, MaxMsgs}, e \in EmojiKeys : AddReaction(s, m, e)
    \/ DeleteMessage("s1", 1)

SpecReact == Init /\ [][NextReact]_vars

\* Read receipts: two sockets in one room mark s1's messages as read, one id
\* at a time, several at once, and the same id twice in one event.
ReadLists == {<<1>>, <<MaxMsgs, 1>>, <<1, 1>>}

NextRead ==
    \/ \E s \in MsgSessions : Connect(s)
    \/ \E s \in MsgSessions : JoinRoom(s, "r1", ClientName(s))
    \/ \E s \in MsgSessions : Disconnect(s)
    \/ \E c \in Contents : SendMessage("s1", c, 0)
    \/ \E s \in MsgSessions, ids \in ReadLists : MarkRead(s, ids)

SpecRead == Init /\ [][NextRead]_vars

\* The message log of one room: s1 posts, edits and deletes its first and its
\* latest message, turns disappearing messages on, the timers fire, and s2
\* joins and leaves.
NextLog ==
    \/ \E s \in MsgSessions : Connect(s)
    \/ \E s \in MsgSessions : JoinRoom(s, "r1", ClientName(s))
    \/ Disconnect("s2")
    \/ \E c \in Contents : SendMessage("s1", c, 0)
    \/ VoiceMessage("s1")
    \/ \E m \in {1, MaxMsgs}, c \in NewContents : EditMessage("s1", m, c)
    \/ \E m \in {1, MaxMsgs} : DeleteMessage("s1", m)
    \/ UpdateSettings("s1", [disappearingMessages |-> DisappearAfter])
    \/ \E t \in timers : DisappearFire(t)
    \/ Tick(DisappearAfter)

SpecLog == Init /\ [][NextLog]_vars

\* Replies: s1 and s2 post to one room with the replyTo the client chooses:
\* none (0), the id of the first message, or the id of a later message.
ReplyIds == {0, 1, MaxMsgs}

NextReply ==
    \/ \E s \in MsgSessions : Connect(s)
    \/ \E s \in MsgSessions : JoinRoom(s, "r1", ClientName(s))
    \/ \E s \in MsgSessions : Disconnect(s)
    \/ \E s \in MsgSessions, c \in Contents, r \in ReplyIds : SendMessage(s, c, r)

SpecReply == Init /\ [][NextReply]_vars

\* Calls: three sockets join either of two rooms, leave, and send call events
\* to each other.
NextCall ==
    \/ \E s \in Sessions : Connect(s)
    \/ \E s \in Sessions, r \in RoomIds : JoinRoom(s, r, ClientName(s))
    \/ \E s \in Sessions : Disconnect(s)
    \/ \E s \in Sessions, ev \in CallEvents, t \in Sessions : CallRelay(s, ev, t)

SpecCall == Init /\ [][NextCall]_vars

\* Key exchange: three browsers join one room; their emits, the server's
\* deliveries and the handshake timeouts interleave freely.
NextHandshake ==
    \/ \E c \in Sessions : Settled /\ Connect(c)
    \/ \E c \in Sessions : ClientJoinRoom(c, "r1")
    \/ \E c \in Sessions : \E e \in client[c].emits :
          Settled /\ e.ev = "join-room" /\ JoinRoom(c, e.target, ClientName(c))
    \/ \E c \in Sessions : \E e \in client[c].emits :
          Settled /\ e.ev = "handshake-init" /\ HandshakeInit(c, e.text)
    \/ \E c \in Sessions : \E e \in client[c].emits :
          Settled /\ e.ev = "handshake-response"
                  /\ HandshakeResponse(c, e.target, e.text, e.aux)
    \/ Transmit
    \/ \E d \in net : ClientRoomJoined(d.to, d)
    \/ \E d \in net : ClientHandshakeRequest(d.to, d)
    \/ \E d \in net : ClientHandshakeComplete(d.to, d)
    \/ \E c \in Sessions : ClientTimeout(c)

SpecHandshake == Init /\ [][NextHandshake]_vars

\* Key exchange in which s3, a socket that runs no client, sends s2 a
\* handshake-response that no handshake-request asked for, with a ciphertext
\* made for no public key.
NextForged ==
    \/ NextHandshake
    \/ Settled /\ conn["s3"] = "open" /\ ~client["s3"].joining
               /\ HandshakeResponse("s3", "s2", "ct", KeyOf("s3"))

SpecForged == Init /\ [][NextForged]_vars

\* Departures: two sockets react to and read s1's first message, and then
\* leave or are evicted.
NextDepart ==
    \/ \E s \in MsgSessions : Connect(s)
    \/ \E s \in MsgSessions : JoinRoom(s, "r1", ClientName(s))
    \/ \E s \in MsgSessions : Disconnect(s)
    \/ \E s \in MsgSessions, t \in MsgSessions : KickMember(s, t)
    \/ \E c \in Contents : SendMessage("s1", c, 0)
    \/ \E s \in MsgSessions, e \in Emojis : AddReaction(s, 1, e)
    \/ \E s \in MsgSessions : MarkRead(s, <<1>>)

SpecDepart == Init /\ [][NextDepart]_vars

\* The ephemeral variant: sockets join a room, post and disconnect, a day
\* passes, the cleanup timers fire.
NextEphemeral ==
    \/ \E s \in Sessions : Connect(s)
    \/ \E s \in Sessions : JoinRoomEphemeral(s, "r1", ClientName(s))
    \/ \E c \in Contents : SendMessageEphemeral("s1", c, 0)
    \/ \E s \in Sessions : DisconnectEphemeral(s)
    \/ \E t \in timers : CleanupFire(t)
    \/ Elapse(CleanupDelay)

SpecEphemeral == Init /\ [][NextEphemeral]_vars

-----------------------------------------------------------------------------
(* Properties *)

\* A session that kick-member removed from the room it still has as currentRoom
Evicted(s) ==
    /\ conn[s] = "open"
    /\ currentRoom[s] # None
    /\ s \notin DOMAIN rooms[currentRoom[s]].members

\* The fields of a message that a client sees after a restart
MsgView(m) == [id |-> m.id, reactions |-> m.reactions, edited |-> m.edited,
               deleted |-> m.deleted]

\* C1: a message whose deleted flag is true has one of the two canonical
\* redaction strings as content and never carries other text.
DeletedIsRedacted ==
    \A r \in DOMAIN rooms : \A i \in 1..Len(rooms[r].messages) :
        rooms[r].messages[i].deleted
            => rooms[r].messages[i].content \in {DeletedText, DisappearedText}

\* C2: a send-message or voice-message from a session that kick-member removed
\* and that has not joined again appends nothing and broadcasts nothing.
EvictedPostIsDropped ==
    [][\A s \in Sessions :
         (last'.ev \in {"send-message", "voice-message"} /\ last'.s = s /\ Evicted(s))
             => (rooms' = rooms /\ out' = {})]_vars

\* C3: an edit-message or delete-message changes a message only when the
\* requesting session is the message's sender; any other request changes no
\* message and broadcasts nothing.
OnlySenderMutates ==
    [][\A s \in Sessions :
         (last'.ev \in {"edit-message", "delete-message"} /\ last'.s = s)
             => /\ DOMAIN rooms' = DOMAIN rooms
                /\ \A r \in DOMAIN rooms :
                     /\ Len(rooms'[r].messages) = Len(rooms[r].messages)
                     /\ \A i \in 1..Len(rooms[r].messages) :
                          rooms'[r].messages[i] # rooms[r].messages[i]
                              => rooms[r].messages[i].senderId = s
                /\ \A d \in out' :
                     \E r \in DOMAIN rooms : \E i \in 1..Len(rooms[r].messages) :
                        /\ rooms[r].messages[i].id = d.p.mid
                        /\ rooms[r].messages[i].senderId = s]_vars

\* C3 witness: a member of the room asked to edit or delete another member's
\* message and the request was dropped.
EditByOtherDropped ==
    /\ last.ev \in {"edit-message", "delete-message"}
    /\ out = {}
    /\ currentRoom[last.s] # None
    /\ \E i \in 1..Len(rooms[currentRoom[last.s]].messages) :
          /\ rooms[currentRoom[last.s]].messages[i].id = last.mid
          /\ rooms[currentRoom[last.s]].messages[i].senderId # last.s
          /\ ~rooms[currentRoom[last.s]].messages[i].deleted

\* C4: a kick-member from a session whose display name differs from the room's
\* createdBy removes nobody, changes no channel and emits neither kicked nor
\* user-left.
OnlyCreatorEvicts ==
    [][\A s \in Sessions :
         (/\ last'.ev = "kick-member"
          /\ last'.s = s
          /\ \/ currentRoom[s] = None
             \/ rooms[currentRoom[s]].createdBy # currentUser[s])
             => (rooms' = rooms /\ chan' = chan /\ out' = {})]_vars

\* C4 witness: a member who is not the creator asked to remove another member
\* and nothing happened.
KickByOtherDropped ==
    /\ last.ev = "kick-member"
    /\ out = {}
    /\ currentRoom[last.s] # None
    /\ rooms[currentRoom[last.s]].createdBy # currentUser[last.s]
    /\ last.target # last.s
    /\ last.target \in DOMAIN rooms[currentRoom[last.s]].members
    /\ conn[last.target] = "open"

\* C5: no room has two Members carrying the same persistent user id.
OneMemberPerUser ==
    \A r \in DOMAIN rooms : \A a, b \in DOMAIN rooms[r].members :
        a # b => ClientUserId(a) # ClientUserId(b)

\* C6: a voice-signal or handshake-response whose targetId is not a member of
\* the sender's current room is dropped.
UnknownTargetDropped ==
    (/\ last.ev \in {"voice-signal", "handshake-response"}
     /\ \/ currentRoom[last.s] = None
        \/ last.target \notin DOMAIN rooms[currentRoom[last.s]].members)
        => out = {}

\* C7: a handshake-init from a member is delivered as handshake-request, with
\* the sender's session id and public key, to every other connected member of
\* the sender's room and to nobody else.
HandshakeInitReachesRoom ==
    (/\ last.ev = "handshake-init"
     /\ currentRoom[last.s] # None
     /\ last.s \in DOMAIN rooms[currentRoom[last.s]].members)
        => out = Emit({t \in DOMAIN rooms[currentRoom[last.s]].members \ {last.s} :
                          conn[t] = "open"},
                      "handshake-request",
                      [Payload EXCEPT !.sender = last.s, !.text = last.text])

\* C7 witness: a handshake-init reached another member while a session joined
\* to a different room was connected.
HandshakeInitFannedOut ==
    /\ last.ev = "handshake-init"
    /\ currentRoom[last.s] # None
    /\ last.s \in DOMAIN rooms[currentRoom[last.s]].members
    /\ out # {}
    /\ \E t \in Sessions :
          /\ conn[t] = "open"
          /\ currentRoom[t] \notin {None, currentRoom[last.s]}

\* C8: a handshake-response is delivered as handshake-complete to the single
\* session whose id is targetId and to no other session, for every targetId.
HandshakeCompleteOnlyToTarget ==
    last.ev = "handshake-response"
        => /\ \A d \in out : d.to = last.target
           /\ (last.target \in Sessions /\ conn[last.target] = "open") => out # {}

\* C9: the messages of a room that had been saved before a restart are handed
\* to a later join-room with the same ids, reactions, edited and deleted flags.
SavedMessagesSurviveRestart ==
    (/\ last.ev = "join-room"
     /\ restarts > 0
     /\ ~loading
     /\ last.target \in DOMAIN savedState)
        => \A d \in out :
              d.ev = "room-joined"
                  => \A i \in 1..Len(savedState[last.target].messages) :
                        /\ i <= Len(d.p.msgs)
                        /\ MsgView(d.p.msgs[i])
                              = MsgView(savedState[last.target].messages[i])

\* C10: when the rooms are loaded, every stored message whose disappearAt has
\* passed is loaded as deleted.
ElapsedRedactedOnLoad ==
    (\/ last.ev = "load"
     \/ last.ev = "restart" /\ ~useFirebase)
        => \A r \in DOMAIN disk \cap DOMAIN rooms :
              \A i \in 1..Len(rooms[r].messages) :
                 (/\ rooms[r].messages[i].disappearAt # NoTime
                  /\ rooms[r].messages[i].disappearAt <= now)
                     => rooms[r].messages[i].deleted

\* The rooms have just been loaded from the snapshot
JustLoaded == last.ev = "load" \/ (last.ev = "restart" /\ ~useFirebase)

\* C11: after a restart every loaded message whose disappearAt is later than
\* the load time and that is not deleted has a disappearance timer again, so
\* that it is redacted once disappearAt has passed.
TimersRescheduledOnLoad ==
    JustLoaded
        => \A r \in DOMAIN rooms : \A i \in 1..Len(rooms[r].messages) :
              (/\ rooms[r].messages[i].disappearAt # NoTime
               /\ rooms[r].messages[i].disappearAt > now
               /\ ~rooms[r].messages[i].deleted)
                  => \E t \in timers : /\ t.room = r
                                       /\ t.mid = rooms[r].messages[i].id
                                       /\ ~t.orphan

\* C12: when the timer of a disappearing message fires, the message is
\* redacted and message-deleted{messageId} is delivered to every connected
\* member of the room the message belongs to.
TimerNotifiesRoom ==
    last.ev = "disappear"
        => /\ \A i \in 1..Len(rooms[last.target].messages) :
                 rooms[last.target].messages[i].id = last.mid
                    => /\ rooms[last.target].messages[i].deleted
                       /\ rooms[last.target].messages[i].content = DisappearedText
           /\ \A m \in DOMAIN rooms[last.target].members :
                 conn[m] = "open"
                    => \E d \in out : /\ d.to = m
                                      /\ d.ev = "message-deleted"
                                      /\ d.p.mid = last.mid

\* C13: a message created by send-message or voice-message has a disappearAt
\* exactly when the room's disappearingMessages setting was enabled at the
\* post, and no later step changes a message's disappearAt.
DisappearAtFixedAtPost ==
    [][/\ \A r \in DOMAIN rooms \cap DOMAIN rooms' :
            \A i \in 1..Len(rooms[r].messages) :
               i <= Len(rooms'[r].messages)
                  => rooms'[r].messages[i].disappearAt = rooms[r].messages[i].disappearAt
       /\ \A s \in Sessions :
            (/\ last'.ev \in {"send-message", "voice-message"}
             /\ last'.s = s
             /\ last'.mid # 0)
                => LET posted == rooms'[currentRoom[s]].messages[
                                     Len(rooms'[currentRoom[s]].messages)]
                   IN /\ posted.id = last'.mid
                      /\ (posted.disappearAt # NoTime)
                            <=> (rooms[currentRoom[s]].settings.disappearingMessages # 0)]_vars

\* C14: every operation that alters durable room state (room creation, post,
\* voice post, add-reaction, mark-read, edit, delete, update-settings, evict,
\* timer redaction) calls saveRooms: after it a save timer set at this moment
\* is pending.
MutationsSignalCoalescer ==
    [][(/\ last'.ev \in {"create-room", "send-message", "voice-message",
                         "add-reaction", "mark-read", "edit-message",
                         "delete-message", "update-settings", "kick-member",
                         "disappear"}
        /\ rooms' # rooms)
           => /\ saveTimeout'.handle = now + SaveDelay
              /\ now + SaveDelay \in saveTimeout'.pending]_vars

\* The events whose handlers call saveRooms
DirtyCalls == {"create-room", "join-room", "send-message", "voice-message",
               "edit-message", "delete-message", "kick-member", "disconnect"}

\* C15: a saveRooms call made while a save timer is pending leaves that timer
\* running, neither cancelled nor restarted.
PendingTimerLeftRunning ==
    [][(saveTimeout.pending # {} /\ last'.ev \in DirtyCalls)
          => saveTimeout'.pending = saveTimeout.pending]_vars

\* C16: at most one save timer is pending at any moment, and when the timer
\* of a burst of saveRooms calls fires it performs one full save and leaves
\* no timer pending.
OneSavePerBurst ==
    /\ [](Cardinality(saveTimeout.pending) <= 1)
    /\ [][last'.ev = "save"
            => /\ saveTimeout'.pending = {}
               /\ IF useFirebase
                  THEN \A r \in DOMAIN rooms : disk'[r] = CloudDoc(rooms[r])
                  ELSE disk' = [r \in DOMAIN rooms |-> LocalDoc(rooms[r])]]_vars

\* C16 witness: a join and a post less than two seconds apart, the last one at
\* second 1, were saved by the one timer that fired at second 3.
BurstSavedOnce ==
    /\ last.ev = "save"
    /\ now = 1 + SaveDelay
    /\ saveTimeout.handle = now
    /\ saveTimeout.pending = {}
    /\ "r1" \in DOMAIN disk
    /\ Len(disk["r1"].messages) >= 1

\* C17: every saveRooms call is eventually followed by a save.
DirtyEventuallySaved == (saveTimeout.pending # {}) ~> (last.ev = "save")

\* C18: a local save is atomic with respect to a crash: after any step the
\* snapshot file is the previous snapshot or the complete new one.
SaveIsAtomic ==
    [][~useFirebase
          => \/ disk' = disk
             \/ disk' = [r \in DOMAIN rooms |-> LocalDoc(rooms[r])]]_vars

\* The session ids in a reactions array
Range(seq) == {seq[i] : i \in 1..Len(seq)}

\* The reactors of an emoji in a reactions object, none when the key is absent
Bucket(reactions, emoji) ==
    IF emoji \in DOMAIN reactions THEN Range(reactions[emoji]) ELSE {}

\* C19: for every message and every emoji key present in its reactions, the
\* value is a non-empty collection of session ids.
NoEmptyBuckets ==
    \A r \in DOMAIN rooms : \A i \in 1..Len(rooms[r].messages) :
        \A e \in DOMAIN rooms[r].messages[i].reactions :
            /\ Len(rooms[r].messages[i].reactions[e]) > 0
            /\ Range(rooms[r].messages[i].reactions[e]) \subseteq Sessions

\* C19 witness: an add-reaction took the last reactor out of an emoji and the
\* key is gone.
LastReactorRemoved ==
    /\ last.ev = "add-reaction"
    /\ \E d \in out : d.ev = "reaction-updated" /\ last.text \notin DOMAIN d.p.reactions
    /\ currentRoom[last.s] # None
    /\ \E i \in 1..Len(rooms[currentRoom[last.s]].messages) :
          /\ rooms[currentRoom[last.s]].messages[i].id = last.mid
          /\ last.text \notin DOMAIN rooms[currentRoom[last.s]].messages[i].reactions

\* C20: add-reaction is a toggle.  Applied twice by the same session to the
\* same emoji it gives back the reactors of every emoji; each accepted
\* add-reaction flips the sender's presence among the reactors of that emoji,
\* leaves the other emojis alone, and emits reaction-updated with the
\* reactions as they are after it.
ReactionIsToggle ==
    /\ [](\A r \in DOMAIN rooms : \A i \in 1..Len(rooms[r].messages) :
            \A e \in EmojiKeys, s \in Sessions :
               LET before == rooms[r].messages[i].reactions
                   twice == ToggleReaction(ToggleReaction(before, e, s), e, s)
               IN /\ DOMAIN twice = DOMAIN before
                  /\ \A k \in DOMAIN before : Range(twice[k]) = Range(before[k]))
    /\ [][\A s \in Sessions :
            (/\ last'.ev = "add-reaction"
             /\ last'.s = s
             /\ currentRoom[s] # None
             /\ FindIndex(rooms[currentRoom[s]].messages, last'.mid) # 0)
                => LET i == FindIndex(rooms[currentRoom[s]].messages, last'.mid)
                       e == last'.text
                       before == rooms[currentRoom[s]].messages[i].reactions
                       after == rooms'[currentRoom[s]].messages[i].reactions
                   IN /\ Bucket(after, e) = IF s \in Bucket(before, e)
                                            THEN Bucket(before, e) \ {s}
                                            ELSE Bucket(before, e) \cup {s}
                      /\ \A k \in (DOMAIN before \cup DOMAIN after) \ {e} :
                            Bucket(after, k) = Bucket(before, k)
                      /\ \E d \in out' : d.to = s
                      /\ \A d \in out' : /\ d.ev = "reaction-updated"
                                         /\ d.p.mid = last'.mid
                                         /\ d.p.reactions = after]_vars

\* C20 witness: a session that had reacted toggled again and left the other
\* reactor of that emoji in place.
ToggleUndone ==
    /\ last.ev = "add-reaction"
    /\ \E d \in out :
          /\ d.ev = "reaction-updated"
          /\ last.text \in DOMAIN d.p.reactions
          /\ last.s \notin Range(d.p.reactions[last.text])

\* The message of the sender's current room that an event names, as a set:
\* empty when the socket has no room or the id is not in the room's log
Target(s, mid) ==
    IF currentRoom[s] = None \/ currentRoom[s] \notin DOMAIN rooms THEN {}
    ELSE {rooms[currentRoom[s]].messages[i] :
             i \in {j \in 1..Len(rooms[currentRoom[s]].messages) :
                       rooms[currentRoom[s]].messages[j].id = mid}}

\* C21: a delete-message by the sender on a message that is already deleted
\* (by its sender or by the disappearance timer) leaves every field of the
\* message, content included, as it was.
DeleteIsIdempotent ==
    [][\A s \in Sessions :
         (/\ last'.ev = "delete-message"
          /\ last'.s = s
          /\ \E m \in Target(s, last'.mid) : m.deleted)
             => rooms' = rooms]_vars

\* C23: an edit-message whose target id is not in the room, or whose target
\* message is deleted, changes no message and emits nothing, also when the
\* requester is the sender.
EditOfDeletedIsDropped ==
    [][\A s \in Sessions :
         (/\ last'.ev = "edit-message"
          /\ last'.s = s
          /\ \A m \in Target(s, last'.mid) : m.deleted)
             => (rooms' = rooms /\ out' = {})]_vars

\* C22: mark-read adds the reader to the readBy of each named message at most
\* once, emits message-read for exactly the ids newly added, to the other
\* connected members and never to the reader; a repeated mark-read changes
\* nothing and emits nothing.
MarkReadOnce ==
    /\ [](\A r \in DOMAIN rooms : \A i \in 1..Len(rooms[r].messages) :
            Cardinality(Range(rooms[r].messages[i].readBy))
                = Len(rooms[r].messages[i].readBy))
    /\ [][\A s \in Sessions :
            (last'.ev = "mark-read" /\ last'.s = s /\ currentRoom[s] # None)
               => LET before == rooms[currentRoom[s]].messages
                      after == rooms'[currentRoom[s]].messages
                      new == {i \in 1..Len(before) :
                                 /\ before[i].id \in Range(last'.text)
                                 /\ s \notin Range(before[i].readBy)}
                      others == {t \in DOMAIN rooms[currentRoom[s]].members \ {s} :
                                    conn[t] = "open"}
                  IN /\ Len(after) = Len(before)
                     /\ \A i \in 1..Len(before) :
                           after[i] = IF i \in new
                                      THEN [before[i] EXCEPT !.readBy = Append(@, s)]
                                      ELSE before[i]
                     /\ out' = {[to |-> t, ev |-> "message-read",
                                 p |-> [Payload EXCEPT !.mid = before[i].id,
                                                       !.sender = s,
                                                       !.text = currentUser[s]]]
                                : t \in others, i \in new}]_vars

\* C22 witness: a reader who was already in the readBy of the named message
\* sent mark-read again while another member was connected, and nothing was
\* emitted.
MarkReadRepeated ==
    /\ last.ev = "mark-read"
    /\ out = {}
    /\ \E m \in Target(last.s, last.mid) :
          m.senderId # last.s /\ last.s \in Range(m.readBy)
    /\ \E t \in DOMAIN rooms[currentRoom[last.s]].members \ {last.s} : conn[t] = "open"

\* C24: once a message is deleted, an add-reaction on it from any session
\* leaves its reactions as they were.
ReactionOnDeletedIsDropped ==
    [][\A s \in Sessions :
         (/\ last'.ev = "add-reaction"
          /\ last'.s = s
          /\ \E m \in Target(s, last'.mid) : m.deleted)
             => rooms' = rooms]_vars

\* C25: after a session disconnects no room has a Member keyed by its id,
\* whatever join-room events it sent before.
NoMemberAfterDisconnect ==
    \A s \in Sessions :
        conn[s] = "closed" => \A r \in DOMAIN rooms : s \notin DOMAIN rooms[r].members

\* C26: while the process runs a room is never removed from the rooms map and
\* keeps its message log, also after all its members have disconnected.
RoomsNeverRemoved ==
    [][last'.ev \notin {"restart", "crash", "load"}
          => \A r \in DOMAIN rooms :
                /\ r \in DOMAIN rooms'
                /\ Len(rooms'[r].messages) >= Len(rooms[r].messages)]_vars

\* The ids of a room's message sequence, in order
Ids(room) == [i \in 1..Len(room.messages) |-> room.messages[i].id]

IsPrefix(a, b) == Len(a) <= Len(b) /\ \A i \in 1..Len(a) : a[i] = b[i]

\* C27: every step (post, edit, delete, settings change, timer firing, join,
\* disconnect) leaves each room's sequence of message ids a prefix of the
\* sequence after the step: messages are appended, never removed or reordered.
MessagesOnlyAppended ==
    [][\A r \in DOMAIN rooms :
          r \in DOMAIN rooms' /\ IsPrefix(Ids(rooms[r]), Ids(rooms'[r]))]_vars

\* C27 witness: an accepted delete-message of the first of two messages has
\* redacted it, and both messages are still in the sequence in order.
DeletedStaysInSequence ==
    /\ last.ev = "delete-message"
    /\ last.mid = 1
    /\ "r1" \in DOMAIN rooms
    /\ Ids(rooms["r1"]) = <<1, 2>>
    /\ rooms["r1"].messages[1].deleted
    /\ rooms["r1"].messages[1].content = DeletedText

\* The events that handlers address to a room channel: io.to(currentRoom) and
\* socket.to(currentRoom)
RoomBroadcasts ==
    {"message", "message-edited", "message-deleted", "reaction-updated",
     "message-read", "settings-updated", "handshake-request", "user-joined",
     "user-left"}

\* The sessions to which the last step delivered the event ev
Receivers(deliveries, ev) == {d.to : d \in {e \in deliveries : e.ev = ev}}

\* C28: a kick-member by the creator of room R against a member t of R removes
\* t from R's members, delivers `kicked` to t (if t has a socket), delivers
\* user-left with user.id = t and the refreshed members list to exactly the
\* connected remaining members, and closes no connection; and a session that
\* was evicted and has not joined again is outside the room's channel and is
\* delivered no event addressed to the room.
KickRemovesAndNotifies ==
    /\ [][\A s \in Sessions, t \in Sessions :
            ( /\ last'.ev = "kick-member" /\ last'.s = s /\ last'.target = t
              /\ currentRoom[s] # None
              /\ currentRoom[s] \in DOMAIN rooms
              /\ rooms[currentRoom[s]].createdBy = currentUser[s]
              /\ t \in DOMAIN rooms[currentRoom[s]].members )
            => LET R == currentRoom[s]
               IN /\ t \notin DOMAIN rooms'[R].members
                  /\ DOMAIN rooms'[R].members = DOMAIN rooms[R].members \ {t}
                  /\ conn[t] = "open" => t \in Receivers(out', "kicked")
                  /\ Receivers(out', "user-left")
                        = {m \in DOMAIN rooms'[R].members : conn[m] = "open"}
                  /\ \A d \in out' :
                        d.ev = "user-left"
                           => /\ d.p.sender = t
                              /\ d.p.members = getMembersList(rooms'[R])
                  /\ conn' = conn]_vars
    /\ [](\A t \in Sessions :
             Evicted(t) => /\ currentRoom[t] \notin chan[t]
                           /\ \A d \in out : d.to = t => d.ev \notin RoomBroadcasts)

\* C28 witness: the creator s1 has just evicted the connected member s2, who
\* was sent `kicked` and is still connected, and s1 was sent user-left.
KickedStaysConnected ==
    /\ last.ev = "kick-member" /\ last.s = "s1" /\ last.target = "s2"
    /\ conn["s2"] = "open"
    /\ Evicted("s2")
    /\ "s1" \in DOMAIN rooms["r1"].members
    /\ "s2" \in Receivers(out, "kicked")
    /\ Receivers(out, "user-left") = {"s1"}

\* seq's last n elements in order (all of seq when it has fewer)
IsLastOf(part, seq, n) ==
    /\ Len(part) = Min({Len(seq), n})
    /\ \A i \in 1..Len(part) : part[i] = seq[Len(seq) - Len(part) + i]

PostAppendsAndBroadcasts ==
    [][\A s \in Sessions :
         ( /\ last'.ev \in {"send-message", "voice-message"} /\ last'.s = s
           /\ currentRoom[s] # None
           /\ currentRoom[s] \in DOMAIN rooms
           /\ s \in DOMAIN rooms[currentRoom[s]].members )
         => LET R == currentRoom[s]
                old == rooms[R].messages
                new == rooms'[R].messages
            IN /\ Len(new) = Len(old) + 1
               /\ SubSeq(new, 1, Len(old)) = old
               /\ new[Len(new)].senderId = s
               /\ \A i \in 1..Len(old) : old[i].id # new[Len(new)].id
               /\ \A r \in DOMAIN rooms \ {R} : rooms'[r] = rooms[r]
               /\ s \in Receivers(out', "message")
               /\ {m \in DOMAIN rooms[R].members : conn[m] = "open"}
                     \subseteq Receivers(out', "message")
               /\ \A d \in out' : d.ev = "message" /\ d.p.msgs = <<new[Len(new)]>>]_vars

\* C30 witness: s1 has posted a second message to a room whose connected
\* members are s1 and s2; both were delivered the `message` event.
PostReachedAllMembers ==
    /\ last.ev = "send-message" /\ last.s = "s1"
    /\ "r1" \in DOMAIN rooms
    /\ DOMAIN rooms["r1"].members = {"s1", "s2"}
    /\ conn["s2"] = "open"
    /\ Len(rooms["r1"].messages) = 2
    /\ rooms["r1"].messages[2].senderId = "s1"
    /\ rooms["r1"].messages[1].id # rooms["r1"].messages[2].id
    /\ Receivers(out, "message") = {"s1", "s2"}

\* The events a client sends to the server after it has connected
InboundEvents ==
    {"join-room", "send-message", "voice-message", "add-reaction", "mark-read",
     "edit-message", "delete-message", "update-settings", "kick-member",
     "voice-signal", "handshake-init", "handshake-response"}

\* C31: an inbound event other than join-room from a session that has joined
\* no room changes no room and delivers nothing to any session.
UnjoinedEventIsDropped ==
    [][\A s \in Sessions :
         ( /\ last'.ev \in InboundEvents \ {"join-room"} /\ last'.s = s
           /\ currentRoom[s] = None )
         => (rooms' = rooms /\ out' = {})]_vars

\* C32: a send-message that appends a message with a replyTo other than null
\* finds a message with that id in the room's log as it was before the append.
ReplyTargetExists ==
    [][\A s \in Sessions :
         ( /\ last'.ev = "send-message" /\ last'.s = s
           /\ currentRoom[s] # None
           /\ currentRoom[s] \in DOMAIN rooms
           /\ Len(rooms'[currentRoom[s]].messages)
                 > Len(rooms[currentRoom[s]].messages) )
         => LET old == rooms[currentRoom[s]].messages
                m == rooms'[currentRoom[s]].messages[Len(old) + 1]
            IN m.replyTo # 0 => \E i \in 1..Len(old) : old[i].id = m.replyTo]_vars

Taken == net \ net'

\* C34: initiateHandshake settles at most once.  While it waits, the first
\* handshake-complete decides it (the key it carries becomes the room key, or
\* the handshake fails when the ciphertext does not decapsulate), and a timeout
\* that fires first makes the client host with a key of its own; once settled,
\* no handshake-complete and no timeout changes the outcome or the key.
HandshakeSettlesOnce ==
    /\ [](\A c \in Sessions :
            /\ client[c].settled <= 1
            /\ (client[c].settled = 1) = (client[c].handshake \in {"peer", "host", "failed"})
            /\ client[c].handshake = "host" => client[c].encryptionKey = KeyOf(c))
    /\ [][\A c \in Sessions :
            /\ client[c].handshake \in {"peer", "host", "failed"}
                  => /\ client'[c].handshake = client[c].handshake
                     /\ client'[c].encryptionKey = client[c].encryptionKey
            /\ (client[c].handshake = "waiting" /\ last'.s = c
                  /\ last'.ev = "client-handshake-complete")
                  => \A d \in Taken :
                        IF Decapsulates(c, d.p.text)
                        THEN /\ client'[c].handshake = "peer"
                             /\ client'[c].encryptionKey = d.p.aux
                        ELSE /\ client'[c].handshake = "failed"
                             /\ client'[c].encryptionKey = None
            /\ (client[c].handshake = "waiting" /\ last'.s = c
                  /\ last'.ev = "client-timeout")
                  => /\ client'[c].handshake = "host"
                     /\ client'[c].encryptionKey = KeyOf(c)]_vars

\* C34 witness: s3 took the key from the first handshake-complete, its timeout
\* has fired since, and a second handshake-complete has just arrived; s3 still
\* holds the first key.
LateCompleteIgnored ==
    /\ last.ev = "client-handshake-complete" /\ last.s = "s3"
    /\ client["s3"].handshake = "peer"
    /\ ~client["s3"].timer
    /\ client["s3"].encryptionKey = "s1"

\* C40: any two members of one room whose clients both hold a room key hold
\* the same key.
KeysAgree ==
    \A r \in DOMAIN rooms : \A a, b \in DOMAIN rooms[r].members :
        (client[a].encryptionKey # None /\ client[b].encryptionKey # None)
            => client[a].encryptionKey = client[b].encryptionKey

\* C35: a disconnect or a kick-member leaves the reactions and the readBy of
\* every message of every room as they were.
DepartureKeepsReactions ==
    [][last'.ev \in {"disconnect", "kick-member"}
          => /\ DOMAIN rooms' = DOMAIN rooms
             /\ \A r \in DOMAIN rooms :
                  /\ Len(rooms'[r].messages) = Len(rooms[r].messages)
                  /\ \A i \in 1..Len(rooms[r].messages) :
                       /\ rooms'[r].messages[i].reactions = rooms[r].messages[i].reactions
                       /\ rooms'[r].messages[i].readBy = rooms[r].messages[i].readBy]_vars

\* C35 witness: s2 reacted to and read message 1 and has just been evicted; it
\* is no member any more, and its id is still in the bucket and in readBy.
EvictedReactionStays ==
    /\ last.ev = "kick-member" /\ last.target = "s2"
    /\ "r1" \in DOMAIN rooms
    /\ "s2" \notin DOMAIN rooms["r1"].members
    /\ Len(rooms["r1"].messages) >= 1
    /\ "e1" \in DOMAIN rooms["r1"].messages[1].reactions
    /\ "s2" \in Range(rooms["r1"].messages[1].reactions["e1"])
    /\ "s2" \in Range(rooms["r1"].messages[1].readBy)

\* C36: the message-deleted of a disappearance timer goes to the connected
\* members of the room the message was posted in, and to no other session,
\* wherever the poster is by then.
TimerNotifiesPostingRoom ==
    last.ev = "disappear"
        => Receivers(out, "message-deleted")
              = {m \in DOMAIN rooms[last.target].members : conn[m] = "open"}

\* C37: `kicked` is delivered only to a session that was a member of the
\* requester's current room when kick-member arrived, and a kick-member whose
\* target was not a member of that room delivers nothing at all.
KickedOnlyToMembers ==
    [][\A s \in Sessions :
         (last'.ev = "kick-member" /\ last'.s = s)
         => /\ \A d \in out' :
                 d.ev = "kicked"
                    => /\ currentRoom[s] # None
                       /\ currentRoom[s] \in DOMAIN rooms
                       /\ d.to \in DOMAIN rooms[currentRoom[s]].members
            /\ ( \/ currentRoom[s] = None
                 \/ currentRoom[s] \notin DOMAIN rooms
                 \/ last'.target \notin DOMAIN rooms[currentRoom[s]].members )
                  => out' = {}]_vars

\* C38: no step changes the content of a message whose deleted flag is set.
TombstoneContentIsFinal ==
    [][\A r \in DOMAIN rooms :
          r \in DOMAIN rooms'
             => \A i \in 1..Len(rooms[r].messages) :
                   (rooms[r].messages[i].deleted /\ i <= Len(rooms'[r].messages))
                      => rooms'[r].messages[i].content = rooms[r].messages[i].content]_vars

\* C39: the completion of loadRooms keeps, in every room that was live while
\* the load was in flight, the members that had joined and the messages that
\* had been posted.
LoadKeepsLiveState ==
    [][last'.ev = "load"
          => \A r \in DOMAIN rooms :
                /\ r \in DOMAIN rooms'
                /\ DOMAIN rooms[r].members \subseteq DOMAIN rooms'[r].members
                /\ Range(Ids(rooms[r])) \subseteq Range(Ids(rooms'[r]))]_vars

====
